---------------------------- MODULE Spec2Model ----------------------------
(***************************************************************************)
(* net-parser-rs: the layered decoder of libpcap captures.                 *)
(*                                                                         *)
(*   CaptureParser::parse_file / parse_records   (src/src/lib.rs)          *)
(*   Ethernet::parse and its VLAN walk           (src/src/layer2/ethernet.rs) *)
(*   IPv6::parse and its next-header walk        (src/src/layer3/ipv6.rs)  *)
(*                                                                         *)
(* Buffers are sequences of bytes (0..255).  Every decoder call is one     *)
(* action: a loop iteration of parse_records, one call of parse_vlan_tag,  *)
(* parse_with_existing_vlan_tag, parse_next_header.  The nom 4 combinators *)
(* the code is built from (take!, be_u8, be_u16, map_opt!, rest) are       *)
(* operators with nom's results: Ok((rest, value)), Err(Incomplete(n)),    *)
(* Err(Error(code)).                                                       *)
(***************************************************************************)
EXTENDS Integers, Sequences, FiniteSets, TLC

VARIABLES
    input,          \* the caller's buffer
    gen,            \* how the buffer was drawn (never read by an action)
    pc,             \* the call in progress
    result,         \* what the entry point returned
    entry,          \* the entry point called
    callee,         \* "spec": PcapRecord::parse as documented; "open": any nom result
    endianness,     \* parse_records: the endianness argument
    current,        \* parse_records: let mut current
    records,        \* parse_records: let mut records
    res,            \* parse_records: the value of PcapRecord::parse last matched on
    header,         \* parse_file: the decoded global header
    rem,            \* the slice handed to the next call (Ethernet, IPv6)
    agg,            \* Ethernet: the VLAN tags collected so far
    vlan_type,      \* Ethernet: the tag type handed to parse_with_existing_vlan_tag
    vlan,           \* Ethernet: what vlan() returned for the decoded frame
    dst_mac,        \* Ethernet: destination MAC read by parse
    src_mac,        \* Ethernet: source MAC read by parse
    payload_length, \* IPv6: the payload length read by parse_ipv6
    next_header,    \* IPv6: the next-header value in hand
    host_endian,    \* byte order of the build target (std::mem::transmute)
    ether,          \* flow: the Ethernet value being converted
    ip,             \* flow: the L3 value being converted
    l3_res,         \* flow: what the L3 decoder returned for ether.payload
    l4_res,         \* flow: what the L4 decoder returned for ip.payload
    layer3          \* flow: what Layer3FlowInfo::try_from returned

vars == <<input, gen, pc, result, entry, callee, endianness, current, records,
          res, header, rem, agg, vlan_type, vlan, dst_mac, src_mac, payload_length,
          next_header, host_endian, ether, ip, l3_res, l4_res, layer3>>

pcapVars == <<callee, endianness, current, records, res, header>>
ethVars == <<agg, vlan_type, vlan, dst_mac, src_mac, host_endian>>
ip6Vars == <<payload_length, next_header>>
flowVars == <<ether, ip, l3_res, l4_res, layer3>>

(***************************************************************************)
(* Bounds of the model.                                                    *)
(***************************************************************************)
MaxRecords == 3
MaxTags == 3
MaxExt == 2

(***************************************************************************)
(* Sequences of bytes.                                                     *)
(***************************************************************************)
Drop(s, n) == SubSeq(s, n + 1, Len(s))

Take(s, n) == SubSeq(s, 1, n)

RECURSIVE Zeros(_)
Zeros(n) == IF n = 0 THEN <<>> ELSE <<0>> \o Zeros(n - 1)

RECURSIVE Flatten(_)
Flatten(ss) == IF ss = <<>> THEN <<>> ELSE Head(ss) \o Flatten(Tail(ss))

(***************************************************************************)
(* nom 4 results.                                                          *)
(***************************************************************************)
NoResult == [tag |-> "None"]

Ok(rest, val) == [tag |-> "Ok", rest |-> rest, val |-> val]

Size(n) == [kind |-> "Size", n |-> n]

Unknown == [kind |-> "Unknown"]

Incomplete(needed) == [tag |-> "Incomplete", needed |-> needed]

\* Err::Error(Context::Code(at, code)): the error and the slice it was raised on
Error(at, code) == [tag |-> "Error", at |-> at, code |-> code]

Failure(at, code) == [tag |-> "Failure", at |-> at, code |-> code]

IsOk(r) == r.tag = "Ok"

IsIncomplete(r) == r.tag = "Incomplete"

(***************************************************************************)
(* nom 4 combinators on &[u8] (streaming: a short buffer is Incomplete     *)
(* with the number of bytes the combinator asked for).                     *)
(***************************************************************************)
\* mutant: a short buffer is an error at the end of the input
take_eof(i, n) ==
    IF Len(i) < n THEN Error(i, "Eof") ELSE Ok(Drop(i, n), Take(i, n))

take(i, n) ==
    IF Len(i) < n THEN Incomplete(Size(n)) ELSE Ok(Drop(i, n), Take(i, n))

be_u8(i) ==
    IF Len(i) < 1 THEN Incomplete(Size(1)) ELSE Ok(Drop(i, 1), i[1])

be_u16(i) ==
    IF Len(i) < 2 THEN Incomplete(Size(2)) ELSE Ok(Drop(i, 2), i[1] * 256 + i[2])

rest(i) == Ok(<<>>, i)

\* u32!(endianness) on exactly four bytes
u32(e, b) ==
    IF e = "Big"
    THEN ((b[1] * 256 + b[2]) * 256 + b[3]) * 256 + b[4]
    ELSE ((b[4] * 256 + b[3]) * 256 + b[2]) * 256 + b[1]

u16(e, b) == IF e = "Big" THEN b[1] * 256 + b[2] ELSE b[2] * 256 + b[1]

(***************************************************************************)
(* The file layer.  GlobalHeader::parse and PcapRecord::parse live in      *)
(* global_header.rs and record.rs; they are modelled from sections 4.1 to  *)
(* 4.3 and 6 of the design (24-byte global header whose magic selects the  *)
(* endianness; 16-byte record header followed by incl_len frame bytes) and *)
(* from the capture in tests::RAW_DATA (magic 4d 3c 2b 1a is big-endian).  *)
(***************************************************************************)
GLOBAL_HEADER_LENGTH == 24

RECORD_HEADER_LENGTH == 16

MAGIC_LENGTH == 4

\* the magic, as the bytes of the file, of each capture the decoder accepts
MagicEndianness(m) ==
    CASE m = <<212, 195, 178, 161>> -> "Little"    \* d4 c3 b2 a1
      [] m = <<161, 178, 195, 212>> -> "Big"       \* a1 b2 c3 d4
      [] m = <<77, 60, 43, 26>> -> "Big"           \* 4d 3c 2b 1a (tests::RAW_DATA)
      [] OTHER -> "BadMagic"

GlobalHeader_parse(i) ==
    IF Len(i) < GLOBAL_HEADER_LENGTH
    THEN Incomplete(Size(GLOBAL_HEADER_LENGTH - Len(i)))
    ELSE LET e == MagicEndianness(Take(i, MAGIC_LENGTH))
         IN IF e = "BadMagic"
            THEN Error(i, "BadMagic")
            ELSE Ok(Drop(i, GLOBAL_HEADER_LENGTH),
                    [endianness |-> e,
                     version_major |-> u16(e, SubSeq(i, 5, 6)),
                     version_minor |-> u16(e, SubSeq(i, 7, 8)),
                     zone |-> u32(e, SubSeq(i, 9, 12)),
                     sig_figs |-> u32(e, SubSeq(i, 13, 16)),
                     snap_length |-> u32(e, SubSeq(i, 17, 20)),
                     network |-> u32(e, SubSeq(i, 21, 24))])

PcapRecord_parse(i, e) ==
    IF Len(i) < RECORD_HEADER_LENGTH
    THEN Incomplete(Size(RECORD_HEADER_LENGTH - Len(i)))
    ELSE LET incl_len == u32(e, SubSeq(i, 9, 12))
             body == Drop(i, RECORD_HEADER_LENGTH)
         IN IF incl_len > Len(body)
            THEN Incomplete(Size(incl_len - Len(body)))
            ELSE Ok(Drop(body, incl_len),
                    [ts_seconds |-> u32(e, SubSeq(i, 1, 4)),
                     ts_frac |-> u32(e, SubSeq(i, 5, 8)),
                     incl_len |-> incl_len,
                     orig_len |-> u32(e, SubSeq(i, 13, 16)),
                     payload |-> Take(body, incl_len)])

\* What the call at lib.rs:167 can return.  With the callee as documented it
\* is PcapRecord_parse's answer; with the callee left open it may also be any
\* other value of nom's IResult, which the match of parse_records handles.
RecordParseResults(i, e, c) ==
    {PcapRecord_parse(i, e)}
    \cup (IF c = "open"
          THEN {Incomplete(Unknown), Error(i, "Open"), Failure(i, "Open")}
          ELSE {})

(***************************************************************************)
(* CaptureParser::parse_records: the match of one loop iteration.          *)
(***************************************************************************)
\* mutant: on Incomplete the loop tries the same bytes again
parse_records_match_retries(r, cur, recs) ==
    CASE r.tag = "Ok" ->
            [ctl |-> "continue", current |-> r.rest, records |-> Append(recs, r.val)]
      [] r.tag = "Incomplete" ->
            [ctl |-> "continue", current |-> cur, records |-> recs]
      [] OTHER ->
            [ctl |-> "return", current |-> cur, records |-> recs]

\* mutant: the bytes left at the tail are pushed as one more record
parse_records_match_fabricates(r, cur, recs) ==
    CASE r.tag = "Ok" ->
            [ctl |-> "continue", current |-> r.rest, records |-> Append(recs, r.val)]
      [] r.tag = "Incomplete" ->
            [ctl |-> "break", current |-> <<>>,
             records |-> IF cur = <<>> THEN recs
                         ELSE Append(recs, [ts_seconds |-> 0, ts_frac |-> 0,
                                            incl_len |-> Len(cur), orig_len |-> Len(cur),
                                            payload |-> cur])]
      [] OTHER ->
            [ctl |-> "return", current |-> cur, records |-> recs]

\* mutant: only an Incomplete of unknown size ends the stream
parse_records_match_size_is_error(r, cur, recs) ==
    CASE r.tag = "Ok" ->
            [ctl |-> "continue", current |-> r.rest, records |-> Append(recs, r.val)]
      [] r.tag = "Incomplete" /\ r.needed.kind = "Unknown" ->
            [ctl |-> "break", current |-> cur, records |-> recs]
      [] OTHER ->
            [ctl |-> "return", current |-> cur, records |-> recs]

\* mutant: every error ends the stream like an Incomplete does
parse_records_match_swallows(r, cur, recs) ==
    CASE r.tag = "Ok" ->
            [ctl |-> "continue", current |-> r.rest, records |-> Append(recs, r.val)]
      [] OTHER ->
            [ctl |-> "break", current |-> cur, records |-> recs]

parse_records_match(r, cur, recs) ==
    CASE r.tag = "Ok" ->
            [ctl |-> "continue", current |-> r.rest, records |-> Append(recs, r.val)]
      [] r.tag = "Incomplete" /\ r.needed.kind = "Size" ->
            [ctl |-> "break", current |-> cur, records |-> recs]
      [] r.tag = "Incomplete" /\ r.needed.kind = "Unknown" ->
            [ctl |-> "break", current |-> cur, records |-> recs]
      [] OTHER ->
            [ctl |-> "return", current |-> cur, records |-> recs]

\* the value of the call once the loop has ended on the arm `m` of result `r`
parse_records_return(m, r) ==
    IF m.ctl = "break" THEN Ok(m.current, m.records) ELSE r

\* parse_records as a function of its arguments, the callee as documented
RECURSIVE parse_records_loop(_, _, _)
parse_records_loop(cur, recs, e) ==
    LET r == PcapRecord_parse(cur, e)
        m == parse_records_match(r, cur, recs)
    IN IF m.ctl = "continue"
       THEN parse_records_loop(m.current, m.records, e)
       ELSE parse_records_return(m, r)

parse_records(i, e) == parse_records_loop(i, <<>>, e)

(***************************************************************************)
(* CaptureParser::parse_file.                                              *)
(***************************************************************************)
\* and_then: the slice and the endianness handed to parse_records
parse_file_records_args(header_res) ==
    [input |-> header_res.rest, endianness |-> header_res.val.endianness]

\* mutant: the rest of the header parse is returned, not that of the records
parse_file_map_header_rem(hdr_rem, hdr, records_res) ==
    IF IsOk(records_res)
    THEN Ok(hdr_rem, [header |-> hdr, records |-> records_res.val])
    ELSE records_res

\* map: the value of parse_file from the value of parse_records; the closure
\* holds rem and header of the header parse
parse_file_map(hdr_rem, hdr, records_res) ==
    IF IsOk(records_res)
    THEN Ok(records_res.rest, [header |-> hdr, records |-> records_res.val])
    ELSE records_res

parse_file(i) ==
    LET header_res == GlobalHeader_parse(i)
    IN IF IsOk(header_res)
       THEN LET a == parse_file_records_args(header_res)
            IN parse_file_map(header_res.rest, header_res.val,
                              parse_records(a.input, a.endianness))
       ELSE header_res

(***************************************************************************)
(* Layer 2: EthernetTypeId, VlanTag, Ethernet (layer2/ethernet.rs).        *)
(***************************************************************************)
ETHERNET_PAYLOAD == 1500

VLAN_LENGTH == 4

MAC_LENGTH == 6

None == [kind |-> "None"]

PayloadLength(x) == [kind |-> "PayloadLength", n |-> x]

Vlan(id) == [kind |-> "Vlan", id |-> id]

L3(id) == [kind |-> "L3", id |-> id]

\* mutant: a value no arm names is kept as an ether type of its own
EthernetTypeId_new_keeps_unknown(v) ==
    CASE v = 33024 -> Vlan("VlanTagId")
      [] v = 34984 -> Vlan("ProviderBridging")
      [] v = 35020 -> L3("Lldp")
      [] v = 2048 -> L3("IPv4")
      [] v = 34525 -> L3("IPv6")
      [] v = 2054 -> L3("Arp")
      [] v <= ETHERNET_PAYLOAD -> PayloadLength(v)
      [] OTHER -> [kind |-> "Unknown", n |-> v]

\* mutant: the length bound excludes 1500 itself
EthernetTypeId_new_below_1500(v) ==
    CASE v = 33024 -> Vlan("VlanTagId")
      [] v = 34984 -> Vlan("ProviderBridging")
      [] v = 35020 -> L3("Lldp")
      [] v = 2048 -> L3("IPv4")
      [] v = 34525 -> L3("IPv6")
      [] v = 2054 -> L3("Arp")
      [] v < ETHERNET_PAYLOAD -> PayloadLength(v)
      [] OTHER -> None

\* EthernetTypeId::new: Some(type) or None
EthernetTypeId_new(v) ==
    CASE v = 33024 -> Vlan("VlanTagId")            \* 0x8100
      [] v = 34984 -> Vlan("ProviderBridging")     \* 0x88a8
      [] v = 35020 -> L3("Lldp")                   \* 0x88cc
      [] v = 2048 -> L3("IPv4")                    \* 0x0800
      [] v = 34525 -> L3("IPv6")                   \* 0x86dd
      [] v = 2054 -> L3("Arp")                     \* 0x0806
      [] v <= ETHERNET_PAYLOAD -> PayloadLength(v)
      [] OTHER -> None

\* map_opt!(parser, f) applied at slice `at`: `r` is the parser's result and
\* `o` is f(r.val), which is looked at only when the parser succeeded
map_opt(r, o, at) ==
    IF ~IsOk(r) THEN r
    ELSE IF o.kind = "None" THEN Error(at, "MapOpt") ELSE Ok(r.rest, o)

VlanTag(t, v) == [vlan_type |-> t, value |-> v]

\* VlanTag::vlan: bytes 2 and 3 of value, reinterpreted as a u16 of the host
VlanTag_vlan(tag, he) ==
    IF he = "little"
    THEN tag.value[3] + 256 * tag.value[4]
    ELSE tag.value[3] * 256 + tag.value[4]

vlans_to_vlan(vlans, he) ==
    IF vlans = <<>> THEN 0 ELSE VlanTag_vlan(vlans[1], he)

Ethernet(dst, src, ether_type, vlans, payload) ==
    [dst_mac |-> dst, src_mac |-> src, ether_type |-> ether_type,
     vlans |-> vlans, payload |-> payload]

\* A call ends by returning a result or by calling the next function.
Return(r) == [next |-> "done", result |-> r]

\* Ethernet::parse: the two MAC addresses, then parse_vlan_tag(rem, .., vec![])
Ethernet_parse(i) ==
    LET d == take(i, MAC_LENGTH)
    IN IF ~IsOk(d) THEN Return(d)
       ELSE LET s == take(d.rest, MAC_LENGTH)
            IN IF ~IsOk(s) THEN Return(s)
               ELSE [next |-> "parse_vlan_tag", rem |-> s.rest,
                     dst_mac |-> d.val, src_mac |-> s.val, agg |-> <<>>]

\* mutant: under PayloadLength(n) the payload is the n bytes the type declares
parse_vlan_tag_declared_length(i, dst, src, ag) ==
    LET word == be_u16(i)
        vlan_res == map_opt(word, EthernetTypeId_new(word.val), i)
    IN IF ~IsOk(vlan_res) THEN Return(vlan_res)
       ELSE IF vlan_res.val.kind = "Vlan"
            THEN [next |-> "parse_with_existing_vlan_tag", rem |-> vlan_res.rest,
                  vlan_type |-> vlan_res.val.id, agg |-> ag]
            ELSE LET p == IF vlan_res.val.kind = "PayloadLength"
                          THEN take(vlan_res.rest, vlan_res.val.n)
                          ELSE rest(vlan_res.rest)
                 IN IF ~IsOk(p) THEN Return(p)
                    ELSE Return(Ok(p.rest, Ethernet(dst, src, vlan_res.val, ag, p.val)))

\* Ethernet::parse_vlan_tag
parse_vlan_tag(i, dst, src, ag) ==
    LET word == be_u16(i)
        vlan_res == map_opt(word, EthernetTypeId_new(word.val), i)
    IN IF ~IsOk(vlan_res) THEN Return(vlan_res)
       ELSE IF vlan_res.val.kind = "Vlan"
            THEN [next |-> "parse_with_existing_vlan_tag", rem |-> vlan_res.rest,
                  vlan_type |-> vlan_res.val.id, agg |-> ag]
            ELSE LET p == rest(vlan_res.rest)
                 IN Return(Ok(p.rest, Ethernet(dst, src, vlan_res.val, ag, p.val)))

\* Ethernet::parse_with_existing_vlan_tag
parse_with_existing_vlan_tag(i, dst, src, vt, ag) ==
    LET t == take(i, VLAN_LENGTH)
    IN IF ~IsOk(t) THEN Return(t)
       ELSE [next |-> "parse_vlan_tag", rem |-> t.rest,
             agg |-> Append(ag, VlanTag(vt, t.val))]

\* Ethernet::parse as a function of its argument: the calls chained
RECURSIVE vlan_walk(_, _, _, _)
vlan_walk(i, dst, src, ag) ==
    LET c == parse_vlan_tag(i, dst, src, ag)
    IN IF c.next = "done" THEN c.result
       ELSE LET t == parse_with_existing_vlan_tag(c.rem, dst, src, c.vlan_type, c.agg)
            IN IF t.next = "done" THEN t.result
               ELSE vlan_walk(t.rem, dst, src, t.agg)

Ethernet_parse_result(i) ==
    LET c == Ethernet_parse(i)
    IN IF c.next = "done" THEN c.result
       ELSE vlan_walk(c.rem, c.dst_mac, c.src_mac, c.agg)

(***************************************************************************)
(* Layer 3: IPv6 (layer3/ipv6.rs).  InternetProtocolId lives in            *)
(* layer3/mod.rs; it is modelled from section 4.6 of the design: the       *)
(* extension types are Hop-by-Hop 0, Routing 43, Fragment 44, ESP 50,      *)
(* AH 51, Destination Options 60 and Mobility 135, and the protocols a     *)
(* flow is made from are TCP 6 and UDP 17.  A protocol is its number.      *)
(***************************************************************************)
ADDRESS_LENGTH == 16

ExtensionProtocols == {0, 43, 44, 50, 51, 60, 135}

TCP == 6

UDP == 17

\* InternetProtocolId::new: Some(protocol) or None
InternetProtocolId_new(v) ==
    IF v \in ExtensionProtocols \cup {TCP, UDP}
    THEN [kind |-> "Some", id |-> v]
    ELSE None

has_next_option(p) == p \in ExtensionProtocols

IPv6(dst, src, protocol, payload) ==
    [dst_ip |-> dst, src_ip |-> src, protocol |-> protocol, payload |-> payload]

\* IPv6::parse: the version nibble, then parse_ipv6(rem)
IPv6_parse(i) ==
    LET r == be_u8(i)
    IN IF ~IsOk(r) THEN Return(r)
       ELSE IF r.val \div 16 = 6
            THEN [next |-> "parse_ipv6", rem |-> r.rest]
            ELSE Return(Error(i, "CondReduce"))

\* IPv6::parse_ipv6: flow label, payload length, next header
parse_ipv6(i) ==
    LET f == take(i, 3)
    IN IF ~IsOk(f) THEN Return(f)
       ELSE LET p == be_u16(f.rest)
            IN IF ~IsOk(p) THEN Return(p)
               ELSE LET b == be_u8(p.rest)
                        h == map_opt(b, InternetProtocolId_new(b.val), p.rest)
                    IN IF ~IsOk(h) THEN Return(h)
                       ELSE [next |-> "parse_next_header", rem |-> h.rest,
                             payload_length |-> p.val, next_header |-> h.val.id]

\* mutant: the payload is every byte behind the addresses
parse_next_header_payload_is_rest(i, pl, nh) ==
    IF has_next_option(nh)
    THEN LET b == be_u8(i)
             h == map_opt(b, InternetProtocolId_new(b.val), i)
         IN IF ~IsOk(h) THEN Return(h)
            ELSE [next |-> "parse_next_header", rem |-> h.rest,
                  payload_length |-> pl, next_header |-> h.val.id]
    ELSE LET hop == take(i, 1)
         IN IF ~IsOk(hop) THEN Return(hop)
            ELSE LET src == take(hop.rest, ADDRESS_LENGTH)
                 IN IF ~IsOk(src) THEN Return(src)
                    ELSE LET dst == take(src.rest, ADDRESS_LENGTH)
                         IN IF ~IsOk(dst) THEN Return(dst)
                            ELSE LET payload == rest(dst.rest)
                                 IN Return(Ok(payload.rest,
                                              IPv6(dst.val, src.val, nh,
                                                   payload.val)))

\* mutant: the walk hands on the slice it was given
parse_next_header_rereads(i, pl, nh) ==
    IF has_next_option(nh)
    THEN LET b == be_u8(i)
             h == map_opt(b, InternetProtocolId_new(b.val), i)
         IN IF ~IsOk(h) THEN Return(h)
            ELSE [next |-> "parse_next_header", rem |-> i,
                  payload_length |-> pl, next_header |-> h.val.id]
    ELSE LET hop == take(i, 1)
         IN IF ~IsOk(hop) THEN Return(hop)
            ELSE LET src == take(hop.rest, ADDRESS_LENGTH)
                 IN IF ~IsOk(src) THEN Return(src)
                    ELSE LET dst == take(src.rest, ADDRESS_LENGTH)
                         IN IF ~IsOk(dst) THEN Return(dst)
                            ELSE LET payload == take(dst.rest, pl)
                                 IN IF ~IsOk(payload) THEN Return(payload)
                                    ELSE Return(Ok(payload.rest,
                                                   IPv6(dst.val, src.val, nh,
                                                        payload.val)))

\* IPv6::parse_next_header: one call
parse_next_header(i, pl, nh) ==
    IF has_next_option(nh)
    THEN LET b == be_u8(i)
             h == map_opt(b, InternetProtocolId_new(b.val), i)
         IN IF ~IsOk(h) THEN Return(h)
            ELSE [next |-> "parse_next_header", rem |-> h.rest,
                  payload_length |-> pl, next_header |-> h.val.id]
    ELSE LET hop == take(i, 1)
         IN IF ~IsOk(hop) THEN Return(hop)
            ELSE LET src == take(hop.rest, ADDRESS_LENGTH)
                 IN IF ~IsOk(src) THEN Return(src)
                    ELSE LET dst == take(src.rest, ADDRESS_LENGTH)
                         IN IF ~IsOk(dst) THEN Return(dst)
                            ELSE LET payload == take(dst.rest, pl)
                                 IN IF ~IsOk(payload) THEN Return(payload)
                                    ELSE Return(Ok(payload.rest,
                                                   IPv6(dst.val, src.val, nh,
                                                        payload.val)))

\* IPv6::parse as a function of its argument: the calls chained
RECURSIVE next_header_walk(_, _, _)
next_header_walk(i, pl, nh) ==
    LET c == parse_next_header(i, pl, nh)
    IN IF c.next = "done" THEN c.result
       ELSE next_header_walk(c.rem, c.payload_length, c.next_header)

IPv6_parse_result(i) ==
    LET c == IPv6_parse(i)
    IN IF c.next = "done" THEN c.result
       ELSE LET d == parse_ipv6(c.rem)
            IN IF d.next = "done" THEN d.result
               ELSE next_header_walk(d.rem, d.payload_length, d.next_header)

(***************************************************************************)
(* Errors (lib.rs, error_chain!).  An error is a kind and the error it was *)
(* chained onto; a Rust String is the sequence of its characters.          *)
(***************************************************************************)
FlowParse == [name |-> "FlowParse"]

NomIncomplete(needed) == [name |-> "NomIncomplete", needed |-> needed]

NomError(message) == [name |-> "NomError", message |-> message]

IncompleteParse(amt) == [name |-> "IncompleteParse", amt |-> amt]

EthernetType(value) == [name |-> "EthernetType", value |-> value]

IPv4Type(value) == [name |-> "IPv4Type", value |-> value]

\* Error::from_kind: an error with no cause
from_kind(k) == [kind |-> k, cause |-> None]

\* err.chain_err(|| e): an error of e's kind whose cause is err
chain_err(err, e) == [kind |-> e.kind, cause |-> err]

\* std::result::Result
Err(e) == [tag |-> "Err", err |-> e]

ResultOk(v) == [tag |-> "Ok", val |-> v]

\* format!("{}", sz): the decimal digits of sz
RECURSIVE format_usize(_)
format_usize(n) ==
    LET digit == <<"0", "1", "2", "3", "4", "5", "6", "7", "8", "9">>[(n % 10) + 1]
    IN IF n < 10 THEN <<digit>> ELSE Append(format_usize(n \div 10), digit)

\* nom::ErrorKind::description, for the kinds the decoders raise; a kind
\* that is not one of nom's own is ErrorKind::Custom
description(k) ==
    CASE k = "MapOpt" -> "Map on Option"
      [] k = "CondReduce" -> "Condition reduce"
      [] k = "Eof" -> "End of file"
      [] k = "Verify" -> "predicate verification"
      [] OTHER -> "Custom error"

\* mutant: the size asked for is dropped
From_nom_Err_loses_size(err) ==
    CASE err.tag = "Incomplete" ->
            from_kind(NomIncomplete(<<"U", "n", "k", "n", "o", "w", "n">>))
      [] err.tag = "Error" -> from_kind(NomError(description(err.code)))
      [] err.tag = "Failure" -> from_kind(NomError(description(err.code)))

\* impl From<nom::Err> for Error
From_nom_Err(err) ==
    CASE err.tag = "Incomplete" /\ err.needed.kind = "Unknown" ->
            from_kind(NomIncomplete(<<"U", "n", "k", "n", "o", "w", "n">>))
      [] err.tag = "Incomplete" /\ err.needed.kind = "Size" ->
            from_kind(NomIncomplete(format_usize(err.needed.n)))
      [] err.tag = "Error" -> from_kind(NomError(description(err.code)))
      [] err.tag = "Failure" -> from_kind(NomError(description(err.code)))

(***************************************************************************)
(* The decoders the conversions call that are not in the source tree:      *)
(* IPv4 (layer3/ipv4.rs), TCP and UDP (layer4/), modelled from sections    *)
(* 4.5 and 4.7 of the design.                                              *)
(***************************************************************************)
\* take!(n) for each n of sizes in turn: the fields, or the first Incomplete
RECURSIVE takes(_, _)
takes(i, sizes) ==
    IF sizes = <<>> THEN Ok(i, <<>>)
    ELSE LET f == take(i, Head(sizes))
         IN IF ~IsOk(f) THEN f
            ELSE LET r == takes(f.rest, Tail(sizes))
                 IN IF ~IsOk(r) THEN r ELSE Ok(r.rest, <<f.val>> \o r.val)

\* version and IHL, TOS, total length, id, flags, TTL, protocol, checksum,
\* src, dst, then IHL * 4 - 20 bytes of options and the rest of total length
IPv4_parse(i) ==
    LET v == be_u8(i)
    IN IF ~IsOk(v) THEN v
       ELSE IF v.val \div 16 # 4 THEN Error(i, "BadVersion")
       ELSE IF v.val % 16 < 5 THEN Error(i, "BadHeaderLength")
       ELSE LET ihl == 4 * (v.val % 16)
                h == takes(v.rest, <<1, 2, 2, 2, 1, 1, 2, 4, 4, ihl - 20>>)
            IN IF ~IsOk(h) THEN h
               ELSE LET payload == take(h.rest, u16("Big", h.val[2]) - ihl)
                    IN IF ~IsOk(payload) THEN payload
                       ELSE Ok(payload.rest,
                               [dst_ip |-> h.val[9], src_ip |-> h.val[8],
                                protocol |-> h.val[6][1],
                                payload |-> payload.val])

\* ports, seq, ack, data offset, flags, window, checksum, urgent pointer,
\* then data offset * 4 - 20 bytes of options; the payload is the remainder
Tcp_parse(i) ==
    LET h == takes(i, <<2, 2, 4, 4, 1, 1, 2, 2, 2>>)
    IN IF ~IsOk(h) THEN h
       ELSE IF h.val[5][1] \div 16 < 5 THEN Error(i, "BadDataOffset")
       ELSE LET options == take(h.rest, 4 * (h.val[5][1] \div 16) - 20)
            IN IF ~IsOk(options) THEN options
               ELSE Ok(<<>>, [src_port |-> u16("Big", h.val[1]),
                              dst_port |-> u16("Big", h.val[2]),
                              payload |-> options.rest])

\* ports, length, checksum, then length - 8 bytes of payload
Udp_parse(i) ==
    LET h == takes(i, <<2, 2, 2, 2>>)
    IN IF ~IsOk(h) THEN h
       ELSE IF u16("Big", h.val[3]) < 8 THEN Error(i, "BadLength")
       ELSE LET payload == take(h.rest, u16("Big", h.val[3]) - 8)
            IN IF ~IsOk(payload) THEN payload
               ELSE Ok(payload.rest, [src_port |-> u16("Big", h.val[1]),
                                      dst_port |-> u16("Big", h.val[2]),
                                      payload |-> payload.val])

\* Layer4FlowInfo::try_from (layer4/mod.rs): the two ports
Layer4FlowInfo_try_from(l4) ==
    ResultOk([src_port |-> l4.src_port, dst_port |-> l4.dst_port])

(***************************************************************************)
(* The conversions to flow information (ethernet.rs and ipv6.rs, impl      *)
(* TryFrom).  Each takes the result of the decoder it calls as an          *)
(* argument, so that the decoder can be the documented one or any other.   *)
(***************************************************************************)
\* mutant: bytes the decoder left over are ignored
map_err_and_then_ignores_rem(r) ==
    IF ~IsOk(r)
    THEN [next |-> "done",
          result |-> Err(chain_err(From_nom_Err(r), from_kind(FlowParse)))]
    ELSE [next |-> "try_from", value |-> r.val]

\* decoder(..).map_err(|e| e.into().chain_err(FlowParse)).and_then(|r| ..),
\* up to the inner try_from: r is what the decoder returned
map_err_and_then(r) ==
    IF ~IsOk(r)
    THEN [next |-> "done",
          result |-> Err(chain_err(From_nom_Err(r), from_kind(FlowParse)))]
    ELSE IF r.rest = <<>>
         THEN [next |-> "try_from", value |-> r.val]
         ELSE [next |-> "done",
               result |-> Err(from_kind(IncompleteParse(Len(r.rest))))]

\* mutant: ARP and LLDP are handed to the IPv4 decoder
Layer2FlowInfo_decoder_any_l3(value) ==
    IF value.ether_type.kind = "L3"
    THEN (IF value.ether_type.id = "IPv6" THEN "IPv6" ELSE "IPv4")
    ELSE "none"

\* the arm of the match on the ether type: an L3 decoder, or none
Layer2FlowInfo_decoder(value) ==
    IF value.ether_type.kind = "L3" /\ value.ether_type.id \in {"IPv4", "IPv6"}
    THEN value.ether_type.id
    ELSE "none"

\* TryFrom<Ethernet> for Layer2FlowInfo, up to Layer3FlowInfo::try_from
Layer2FlowInfo_try_from(value, r) ==
    IF Layer2FlowInfo_decoder(value) = "none"
    THEN [next |-> "done",
          result |-> Err(from_kind(EthernetType(value.ether_type)))]
    ELSE map_err_and_then(r)

\* TryFrom<Ethernet> for Layer2FlowInfo, from the `?` on: l3 is what
\* Layer3FlowInfo::try_from returned
Layer2FlowInfo_try_from_return(value, l3, he) ==
    IF l3.tag = "Err" THEN l3
    ELSE ResultOk([src_mac |-> value.src_mac, dst_mac |-> value.dst_mac,
                   vlan |-> vlans_to_vlan(value.vlans, he),
                   layer3 |-> l3.val])

\* the arm of the match on the protocol: an L4 decoder, or none
Layer3FlowInfo_decoder(value) ==
    CASE value.protocol = TCP -> "Tcp"
      [] value.protocol = UDP -> "Udp"
      [] OTHER -> "none"

\* TryFrom<IPv6> for Layer3FlowInfo: r is what the L4 decoder returned
Layer3FlowInfo_try_from(value, r) ==
    IF Layer3FlowInfo_decoder(value) = "none"
    THEN Err(from_kind(IPv4Type(value.protocol)))
    ELSE LET s == map_err_and_then(r)
         IN IF s.next = "done" THEN s.result
            ELSE LET l4 == Layer4FlowInfo_try_from(s.value)
                 IN IF l4.tag = "Err" THEN l4
                    ELSE ResultOk([src_ip |-> value.src_ip,
                                   dst_ip |-> value.dst_ip,
                                   layer4 |-> l4.val])

\* What a decoder left open can return besides the documented result: each
\* kind of nom error, and a value with one or two bytes of i left over.
OpenResults(i, val) ==
    {Incomplete(Unknown), Incomplete(Size(3)), Error(i, "Eof"),
     Failure(i, "Verify")}
    \cup {Ok(Drop(i, Len(i) - n), val) : n \in {k \in 1..2 : k <= Len(i)}}

\* what the L3 decoder called at ethernet.rs:214 or 228 can return
L3ParseResults(value, c) ==
    (CASE Layer2FlowInfo_decoder(value) = "IPv4" -> {IPv4_parse(value.payload)}
       [] Layer2FlowInfo_decoder(value) = "IPv6" ->
             {IPv6_parse_result(value.payload)}
       [] OTHER -> {NoResult})
    \cup (IF c = "open" /\ Layer2FlowInfo_decoder(value) # "none"
          THEN OpenResults(value.payload,
                           IPv6(<<>>, <<>>, UDP, <<0, 7, 0, 9, 0, 8, 0, 0>>))
          ELSE {})

\* what the L4 decoder called at ipv6.rs:129 or 143 can return
L4ParseResults(value, c) ==
    (CASE Layer3FlowInfo_decoder(value) = "Tcp" -> {Tcp_parse(value.payload)}
       [] Layer3FlowInfo_decoder(value) = "Udp" -> {Udp_parse(value.payload)}
       [] OTHER -> {NoResult})
    \cup (IF c = "open" /\ Layer3FlowInfo_decoder(value) # "none"
          THEN OpenResults(value.payload,
                           [src_port |-> 7, dst_port |-> 9, payload |-> <<>>])
          ELSE {})

(***************************************************************************)
(* The buffers the file layer is run on: a global header (complete or cut  *)
(* short, with a known or an unknown magic), then complete records, then a *)
(* tail that is no complete record.                                        *)
(***************************************************************************)
Enc16(e, v) ==
    IF e = "Big" THEN <<v \div 256, v % 256>> ELSE <<v % 256, v \div 256>>

Enc32(e, v) ==
    IF e = "Big"
    THEN <<v \div 16777216, (v \div 65536) % 256, (v \div 256) % 256, v % 256>>
    ELSE <<v % 256, (v \div 256) % 256, (v \div 65536) % 256, v \div 16777216>>

MagicKinds == {"Little", "Big", "Test", "Bad"}

MagicBytes(k) ==
    CASE k = "Little" -> <<212, 195, 178, 161>>
      [] k = "Big" -> <<161, 178, 195, 212>>
      [] k = "Test" -> <<77, 60, 43, 26>>
      [] OTHER -> <<10, 13, 13, 10>>

\* the byte order the fields of a generated capture are written in
GenEndianness(k) == IF k = "Little" THEN "Little" ELSE "Big"

GenHeaderValue(k) ==
    [endianness |-> GenEndianness(k), version_major |-> 2, version_minor |-> 4,
     zone |-> 0, sig_figs |-> 0, snap_length |-> 1555, network |-> 1]

GenHeaderBytes(k) ==
    LET e == GenEndianness(k)
        h == GenHeaderValue(k)
    IN MagicBytes(k) \o Enc16(e, h.version_major) \o Enc16(e, h.version_minor)
       \o Enc32(e, h.zone) \o Enc32(e, h.sig_figs) \o Enc32(e, h.snap_length)
       \o Enc32(e, h.network)

GenPayload(idx, len) == [j \in 1..len |-> 16 * idx + j]

GenRecordValue(idx, len) ==
    [ts_seconds |-> 1527868899 + idx, ts_frac |-> 152053, incl_len |-> len,
     orig_len |-> len + 1000, payload |-> GenPayload(idx, len)]

GenRecordBytes(e, r) ==
    Enc32(e, r.ts_seconds) \o Enc32(e, r.ts_frac) \o Enc32(e, r.incl_len)
    \o Enc32(e, r.orig_len) \o r.payload

GenRecordValues(lens) == [k \in 1..Len(lens) |-> GenRecordValue(k, lens[k])]

GenRecordsBytes(e, lens) ==
    Flatten([k \in 1..Len(lens) |-> GenRecordBytes(e, GenRecordValue(k, lens[k]))])

PayloadLens == {0, 1, 3}

\* a tail: the first `keep` bytes of a record that declares `len` frame bytes
Tails ==
    {[len |-> 0, keep |-> 0], [len |-> 0, keep |-> 1], [len |-> 2, keep |-> 15],
     [len |-> 3, keep |-> 16], [len |-> 100, keep |-> 56]}

GenTailBytes(e, t) ==
    Take(GenRecordBytes(e, [GenRecordValue(9, 0) EXCEPT !.incl_len = t.len]
                           ) \o Zeros(t.keep), t.keep)

HeaderCuts == {0, 3, 23}

LenSeqs == UNION {[1..k -> PayloadLens] : k \in 0..MaxRecords}

NoTail == [len |-> 0, keep |-> 0]

GenFiles ==
    [entry : {"parse_file"}, magic : MagicKinds, cut : {GLOBAL_HEADER_LENGTH},
     lens : LenSeqs, tail : Tails]
    \cup [entry : {"parse_file"}, magic : MagicKinds, cut : HeaderCuts,
          lens : {<<>>}, tail : {NoTail}]

GenRecordStreams ==
    [entry : {"parse_records"}, magic : {"Little", "Big"},
     cut : {0}, lens : LenSeqs, tail : Tails]

GenBytes(g) ==
    LET e == GenEndianness(g.magic)
    IN Take(GenHeaderBytes(g.magic), g.cut) \o GenRecordsBytes(e, g.lens)
       \o GenTailBytes(e, g.tail)

(***************************************************************************)
(* The file layer as a state machine.                                      *)
(***************************************************************************)
IdleEthernet ==
    /\ agg = <<>>
    /\ vlan_type = "None"
    /\ vlan = 0
    /\ dst_mac = <<>>
    /\ src_mac = <<>>
    /\ host_endian = "little"

IdleIPv6 ==
    /\ payload_length = 0
    /\ next_header = 0

IdleFlow ==
    /\ ether = NoResult
    /\ ip = NoResult
    /\ l3_res = NoResult
    /\ l4_res = NoResult
    /\ layer3 = NoResult

IdleFile ==
    /\ callee = "spec"
    /\ endianness = "Big"
    /\ current = <<>>
    /\ records = <<>>
    /\ res = NoResult
    /\ header = NoResult

InitFileWith(c) ==
    /\ gen \in GenFiles \cup GenRecordStreams
    /\ input = GenBytes(gen)
    /\ entry = gen.entry
    /\ pc = gen.entry
    /\ callee = c
    /\ endianness = GenEndianness(gen.magic)
    /\ current = <<>>
    /\ records = <<>>
    /\ res = NoResult
    /\ header = NoResult
    /\ result = NoResult
    /\ rem = <<>>
    /\ IdleEthernet
    /\ IdleIPv6
    /\ IdleFlow

InitFile == InitFileWith("spec")

InitFileOpen == InitFileWith("open")

\* lib.rs:137-153, up to the call of parse_records (whose first two lines set
\* records and current)
CallParseFile ==
    /\ pc = "parse_file"
    /\ LET header_res == GlobalHeader_parse(input)
       IN IF IsOk(header_res)
          THEN LET a == parse_file_records_args(header_res)
               IN /\ header' = header_res.val
                  /\ endianness' = a.endianness
                  /\ current' = a.input
                  /\ records' = <<>>
                  /\ pc' = "loop"
                  /\ UNCHANGED result
          ELSE /\ result' = header_res
               /\ pc' = "done"
               /\ UNCHANGED <<header, endianness, current, records>>
    /\ UNCHANGED <<flowVars, input, gen, entry, callee, res, rem, ethVars, ip6Vars>>

\* lib.rs:160-164
CallParseRecords ==
    /\ pc = "parse_records"
    /\ records' = <<>>
    /\ current' = input
    /\ pc' = "loop"
    /\ UNCHANGED <<flowVars, input, gen, entry, callee, endianness, res, header, result,
                   rem, ethVars, ip6Vars>>

\* lib.rs:166-185: one iteration of the loop, and the return when it ends
ParseRecordsLoop ==
    /\ pc = "loop"
    /\ \E r \in RecordParseResults(current, endianness, callee) :
          LET m == parse_records_match(r, current, records)
          IN /\ res' = r
             /\ current' = m.current
             /\ records' = m.records
             /\ IF m.ctl = "continue"
                THEN UNCHANGED <<pc, result>>
                ELSE /\ pc' = "done"
                     /\ result' = IF entry = "parse_file"
                                  THEN parse_file_map(Drop(input, GLOBAL_HEADER_LENGTH),
                                                      header,
                                                      parse_records_return(m, r))
                                  ELSE parse_records_return(m, r)
    /\ UNCHANGED <<flowVars, input, gen, entry, callee, endianness, header, rem, ethVars, ip6Vars>>

NextFile == CallParseFile \/ CallParseRecords \/ ParseRecordsLoop

SpecFile == InitFile /\ [][NextFile]_vars

SpecFileOpen == InitFileOpen /\ [][NextFile]_vars

\* a call that can take its next step does: the code is sequential
SpecFileLive == SpecFile /\ WF_vars(NextFile)

(***************************************************************************)
(* The frames Ethernet::parse is run on.  "dot1q" frames are laid out as   *)
(* IEEE 802.1Q puts them on the wire: each tag is a 2-byte identifier and  *)
(* a 2-byte TCI.  "raw" frames put four bytes behind each identifier.      *)
(* Both end in a 16-bit type and a payload; a frame may be cut short.      *)
(***************************************************************************)
GenDstMac == <<1, 2, 3, 4, 5, 6>>

GenSrcMac == <<255, 254, 253, 252, 251, 250>>

TagIds == {33024, 34984}

\* TCI 0x0064 (VID 100) and 0xE001 (PCP 7, VID 1)
TagBodies(family) ==
    IF family = "dot1q"
    THEN {<<0, 100>>, <<224, 1>>}
    ELSE {<<0, 100, 8, 0>>, <<239, 255, 134, 221>>}

\* IPv4, IPv6, ARP, LLDP, lengths 0, 4 and 1500, then 1501 and MPLS (0x8847)
EtherTypes == {2048, 34525, 2054, 35020, 0, 4, 1500, 1501, 34887}

FramePayloads == {<<>>, <<1, 2, 3, 4>>, <<69, 0, 0>>}

GenTags(family) ==
    UNION {[1..n -> [tpid : TagIds, body : TagBodies(family)]] : n \in 0..MaxTags}

GenFrameBytes(g) ==
    LET whole == GenDstMac \o GenSrcMac
                 \o Flatten([k \in 1..Len(g.tags) |->
                               Enc16("Big", g.tags[k].tpid) \o g.tags[k].body])
                 \o Enc16("Big", g.ether_type) \o g.payload
    IN Take(whole, Len(whole) - g.cut)

GenWholeFrames ==
    UNION {[family : {f}, tags : GenTags(f), ether_type : EtherTypes,
            payload : FramePayloads, cut : {0}] : f \in {"dot1q", "raw"}}

\* the frames that are also run cut to each of their proper prefixes
GenCutBases ==
    {w \in GenWholeFrames :
        /\ w.family = "raw"
        /\ Len(w.tags) <= 1
        /\ w.ether_type \in {2048, 4}
        /\ w.payload = <<1, 2, 3, 4>>}

GenCutFrames ==
    UNION {{[g EXCEPT !.cut = c] : c \in 1..Len(GenFrameBytes(g))} : g \in GenCutBases}

GenFrames == GenWholeFrames \cup GenCutFrames

(***************************************************************************)
(* Ethernet::parse as a state machine, then the accessor vlan().           *)
(***************************************************************************)
InitEthernet ==
    /\ gen \in GenFrames
    /\ input = GenFrameBytes(gen)
    /\ entry = "Ethernet_parse"
    /\ pc = "Ethernet_parse"
    /\ host_endian \in {"little", "big"}
    /\ result = NoResult
    /\ rem = <<>>
    /\ agg = <<>>
    /\ vlan_type = "None"
    /\ vlan = 0
    /\ dst_mac = <<>>
    /\ src_mac = <<>>
    /\ IdleFile
    /\ IdleIPv6
    /\ IdleFlow

\* ethernet.rs:188-203
EthernetParse ==
    /\ pc = "Ethernet_parse"
    /\ LET c == Ethernet_parse(input)
       IN /\ pc' = c.next
          /\ IF c.next = "done"
             THEN /\ result' = c.result
                  /\ UNCHANGED <<rem, dst_mac, src_mac, agg>>
             ELSE /\ rem' = c.rem
                  /\ dst_mac' = c.dst_mac
                  /\ src_mac' = c.src_mac
                  /\ agg' = c.agg
                  /\ UNCHANGED result
    /\ UNCHANGED <<flowVars, input, gen, entry, pcapVars, vlan_type, vlan, host_endian, ip6Vars>>

\* ethernet.rs:133-170
ParseVlanTag ==
    /\ pc = "parse_vlan_tag"
    /\ LET c == parse_vlan_tag(rem, dst_mac, src_mac, agg)
       IN /\ pc' = c.next
          /\ IF c.next = "done"
             THEN /\ result' = c.result
                  /\ UNCHANGED <<rem, vlan_type, agg>>
             ELSE /\ rem' = c.rem
                  /\ vlan_type' = c.vlan_type
                  /\ agg' = c.agg
                  /\ UNCHANGED result
    /\ UNCHANGED <<flowVars, input, gen, entry, pcapVars, dst_mac, src_mac, vlan, host_endian,
                   ip6Vars>>

\* ethernet.rs:115-131
ParseWithExistingVlanTag ==
    /\ pc = "parse_with_existing_vlan_tag"
    /\ LET c == parse_with_existing_vlan_tag(rem, dst_mac, src_mac, vlan_type, agg)
       IN /\ pc' = c.next
          /\ IF c.next = "done"
             THEN /\ result' = c.result
                  /\ UNCHANGED <<rem, agg>>
             ELSE /\ rem' = c.rem
                  /\ agg' = c.agg
                  /\ UNCHANGED result
    /\ UNCHANGED <<flowVars, input, gen, entry, pcapVars, dst_mac, src_mac, vlan_type, vlan,
                   host_endian, ip6Vars>>

\* ethernet.rs:107-109: vlan() of the frame Ethernet::parse returned
EthernetVlan ==
    /\ pc = "done"
    /\ entry = "Ethernet_parse"
    /\ IsOk(result)
    /\ vlan' = vlans_to_vlan(result.val.vlans, host_endian)
    /\ pc' = "vlan"
    /\ UNCHANGED <<flowVars, input, gen, entry, result, pcapVars, rem, agg, vlan_type, dst_mac,
                   src_mac, host_endian, ip6Vars>>

NextEthernet ==
    EthernetParse \/ ParseVlanTag \/ ParseWithExistingVlanTag \/ EthernetVlan

SpecEthernet == InitEthernet /\ [][NextEthernet]_vars

(***************************************************************************)
(* The packets IPv6::parse is run on, laid out as RFC 8200 puts them on    *)
(* the wire: the 40-byte fixed header, then one 8-byte extension header    *)
(* per element of the chain (next header, length 0, six bytes of padding   *)
(* options), then the L4 segment, then bytes that are not the packet's.    *)
(***************************************************************************)
EXTENSION_HEADER_LENGTH == 8

\* 0x60 and 0x65 are version 6, 0x45 is version 4
VersionBytes == {96, 101, 69}

HopLimits == {64, 6, 0}

GenSrcIps ==
    {<<1, 2, 3, 4, 5, 6, 7, 8, 9, 10, 11, 12, 13, 14, 15, 15>>,
     <<17, 2, 3, 4, 5, 6, 7, 8, 9, 10, 11, 12, 13, 14, 15, 15>>}

GenDstIp == <<15, 0, 1, 2, 3, 4, 5, 6, 7, 8, 9, 10, 11, 12, 13, 14>>

ChainTypes == {0, 43, 60}

\* TCP, UDP and No Next Header (59)
L4Protocols == {TCP, UDP, 59}

Segments == {<<>>, <<198, 183, 0, 80, 0, 8, 0, 0>>}

GenChains == UNION {[1..n -> ChainTypes] : n \in 0..MaxExt}

GenWholePackets ==
    [version : VersionBytes, hop : HopLimits, src : GenSrcIps, chain : GenChains,
     l4 : L4Protocols, segment : Segments, extra : {0, 1}, cut : {0}]

\* the next-header values in wire order: the chain, then the L4 protocol
GenNextHeaders(g) == Append(g.chain, g.l4)

GenExtensionBytes(g) ==
    Flatten([k \in 1..Len(g.chain) |->
               <<GenNextHeaders(g)[k + 1], 0, 1, 4, 0, 0, 0, 0>>])

\* the packet without its last g.cut bytes
GenPacketBytes(g) ==
    LET whole == <<g.version, 0, 0, 0>>
                 \o Enc16("Big", Len(GenExtensionBytes(g)) + Len(g.segment))
                 \o <<GenNextHeaders(g)[1], g.hop>> \o g.src \o GenDstIp
                 \o GenExtensionBytes(g) \o g.segment \o Zeros(g.extra)
    IN Take(whole, Len(whole) - g.cut)

\* the packets that are also run cut to each of their proper prefixes
GenCutPacketBases ==
    {w \in GenWholePackets :
        /\ w.version = 96
        /\ w.hop = 64
        /\ w.chain = <<>>
        /\ w.l4 \in {TCP, UDP}
        /\ w.segment # <<>>}

GenCutPackets ==
    UNION {{[g EXCEPT !.cut = c] : c \in 1..Len(GenPacketBytes(g))} :
             g \in GenCutPacketBases}

GenPackets == GenWholePackets \cup GenCutPackets

(***************************************************************************)
(* IPv6::parse as a state machine.                                         *)
(***************************************************************************)
InitIPv6 ==
    /\ gen \in GenPackets
    /\ input = GenPacketBytes(gen)
    /\ entry = "IPv6_parse"
    /\ pc = "IPv6_parse"
    /\ result = NoResult
    /\ rem = <<>>
    /\ payload_length = 0
    /\ next_header = 0
    /\ IdleFile
    /\ IdleEthernet
    /\ IdleFlow

\* ipv6.rs:108-120
IPv6Parse ==
    /\ pc = "IPv6_parse"
    /\ LET c == IPv6_parse(input)
       IN /\ pc' = c.next
          /\ IF c.next = "done"
             THEN result' = c.result /\ UNCHANGED rem
             ELSE rem' = c.rem /\ UNCHANGED result
    /\ UNCHANGED <<flowVars, input, gen, entry, pcapVars, ethVars, ip6Vars>>

\* ipv6.rs:79-92
ParseIpv6 ==
    /\ pc = "parse_ipv6"
    /\ LET c == parse_ipv6(rem)
       IN /\ pc' = c.next
          /\ IF c.next = "done"
             THEN result' = c.result /\ UNCHANGED <<rem, ip6Vars>>
             ELSE /\ rem' = c.rem
                  /\ payload_length' = c.payload_length
                  /\ next_header' = c.next_header
                  /\ UNCHANGED result
    /\ UNCHANGED <<flowVars, input, gen, entry, pcapVars, ethVars>>

\* ipv6.rs:45-77
ParseNextHeader ==
    /\ pc = "parse_next_header"
    /\ LET c == parse_next_header(rem, payload_length, next_header)
       IN /\ pc' = c.next
          /\ IF c.next = "done"
             THEN result' = c.result /\ UNCHANGED <<rem, ip6Vars>>
             ELSE /\ rem' = c.rem
                  /\ payload_length' = c.payload_length
                  /\ next_header' = c.next_header
                  /\ UNCHANGED result
    /\ UNCHANGED <<flowVars, input, gen, entry, pcapVars, ethVars>>

NextIPv6 == IPv6Parse \/ ParseIpv6 \/ ParseNextHeader

SpecIPv6 == InitIPv6 /\ [][NextIPv6]_vars

\* a call that can take its next step does: the code is sequential
SpecIPv6Live == SpecIPv6 /\ WF_vars(NextIPv6)

(***************************************************************************)
(* The values the conversions are run on: what Ethernet::parse returns for *)
(* a frame (untagged, or with one tag) whose payload is an IPv4 or IPv6    *)
(* packet carrying a TCP or UDP segment, and what IPv6::parse returns for  *)
(* such a packet.  Packets and segments are well-formed, or have a byte    *)
(* too many, a byte too few, or a field no decoder accepts.                *)
(***************************************************************************)
\* tests::RAW_DATA of ipv6.rs: ports 50871 and 80, seq 1, ack 2, offset 5
TcpHeader == <<198, 183, 0, 80, 0, 0, 0, 1, 0, 0, 0, 2, 80, 0, 0, 0, 0, 0, 0, 0>>

UdpDatagram(length, payload) ==
    <<198, 183, 0, 80>> \o Enc16("Big", length) \o <<0, 0>> \o payload

SegmentKinds ==
    {"tcp", "tcp_data", "tcp_short", "tcp_offset",
     "udp", "udp_data", "udp_extra", "udp_short", "udp_length", "icmp"}

\* the protocol number the packet announces the segment with
SegmentProtocol(k) ==
    CASE k \in {"tcp", "tcp_data", "tcp_short", "tcp_offset"} -> TCP
      [] k \in {"udp", "udp_data", "udp_extra", "udp_short", "udp_length"} -> UDP
      [] OTHER -> 1

SegmentBytes(k) ==
    CASE k = "tcp" -> TcpHeader
      [] k = "tcp_data" -> TcpHeader \o <<1, 2, 3, 4>>
      [] k = "tcp_short" -> Take(TcpHeader, 13)
      [] k = "tcp_offset" -> [TcpHeader EXCEPT ![13] = 64]
      [] k = "udp" -> UdpDatagram(8, <<>>)
      [] k = "udp_data" -> UdpDatagram(10, <<1, 2>>)
      [] k = "udp_extra" -> UdpDatagram(8, <<0>>)
      [] k = "udp_short" -> UdpDatagram(10, <<1>>)
      [] k = "udp_length" -> UdpDatagram(7, <<>>)
      [] OTHER -> <<8, 0, 0, 0>>

\* "extra": a byte behind the packet; "short": the last byte missing;
\* "version": a version nibble (5) that is neither family's
PacketShapes == {"whole", "extra", "short", "version"}

\* tests::TCP_RAW_DATA of ethernet.rs: the IPv4 header of 1.2.3.4 to
\* 10.11.12.13
GenIPv4Bytes(shape, k) ==
    LET whole == <<(IF shape = "version" THEN 85 ELSE 69), 0>>
                 \o Enc16("Big", 20 + Len(SegmentBytes(k)))
                 \o <<0, 0, 0, 0, 100, SegmentProtocol(k), 0, 0>>
                 \o <<1, 2, 3, 4>> \o <<10, 11, 12, 13>>
                 \o SegmentBytes(k) \o Zeros(IF shape = "extra" THEN 1 ELSE 0)
    IN Take(whole, Len(whole) - (IF shape = "short" THEN 1 ELSE 0))

GenIPv6Bytes(shape, k) ==
    GenPacketBytes([version |-> IF shape = "version" THEN 85 ELSE 96,
                    hop |-> 64,
                    src |-> <<1, 2, 3, 4, 5, 6, 7, 8, 9, 10, 11, 12, 13, 14, 15, 15>>,
                    chain |-> <<>>,
                    l4 |-> SegmentProtocol(k),
                    segment |-> SegmentBytes(k),
                    extra |-> IF shape = "extra" THEN 1 ELSE 0,
                    cut |-> IF shape = "short" THEN 1 ELSE 0])

GenFlowFrames ==
    [entry : {"Layer2FlowInfo_try_from"}, tagged : BOOLEAN,
     ether_type : {2048, 34525, 2054, 35020, 4}, family : {"IPv4", "IPv6"},
     shape : PacketShapes, segment : SegmentKinds]

\* the packets IPv6::parse decodes, for the conversion of its value
GenFlowPackets ==
    [entry : {"Layer3FlowInfo_try_from"}, tagged : {FALSE}, ether_type : {34525},
     family : {"IPv6"}, shape : {"whole", "extra"},
     segment : SegmentKinds \ {"icmp"}]

GenFlowPacketBytes(g) ==
    IF g.family = "IPv4" THEN GenIPv4Bytes(g.shape, g.segment)
    ELSE GenIPv6Bytes(g.shape, g.segment)

GenFlowBytes(g) ==
    IF g.entry = "Layer3FlowInfo_try_from" THEN GenFlowPacketBytes(g)
    ELSE GenDstMac \o GenSrcMac
         \o (IF g.tagged THEN <<129, 0, 0, 100, 8, 0>> ELSE <<>>)
         \o Enc16("Big", g.ether_type) \o GenFlowPacketBytes(g)

(***************************************************************************)
(* The conversions as a state machine: Layer2FlowInfo::try_from calls the  *)
(* L3 decoder and Layer3FlowInfo::try_from, which calls the L4 decoder.    *)
(***************************************************************************)
InitFlow ==
    /\ gen \in GenFlowFrames \cup GenFlowPackets
    /\ input = GenFlowBytes(gen)
    /\ entry = gen.entry
    /\ pc = gen.entry
    /\ callee \in {"spec", "open"}
    /\ host_endian \in {"little", "big"}
    /\ ether = IF gen.entry = "Layer2FlowInfo_try_from"
               THEN Ethernet_parse_result(input).val
               ELSE NoResult
    /\ ip = IF gen.entry = "Layer3FlowInfo_try_from"
            THEN IPv6_parse_result(input).val
            ELSE NoResult
    /\ l3_res = NoResult
    /\ l4_res = NoResult
    /\ layer3 = NoResult
    /\ result = NoResult
    /\ rem = <<>>
    /\ endianness = "Big"
    /\ current = <<>>
    /\ records = <<>>
    /\ res = NoResult
    /\ header = NoResult
    /\ agg = <<>>
    /\ vlan_type = "None"
    /\ vlan = 0
    /\ dst_mac = <<>>
    /\ src_mac = <<>>
    /\ IdleIPv6

\* ethernet.rs:209-243
Layer2TryFrom ==
    /\ pc = "Layer2FlowInfo_try_from"
    /\ \E r \in L3ParseResults(ether, callee) :
          LET c == Layer2FlowInfo_try_from(ether, r)
          IN /\ l3_res' = r
             /\ IF c.next = "done"
                THEN result' = c.result /\ pc' = "done" /\ UNCHANGED ip
                ELSE /\ ip' = c.value
                     /\ pc' = "Layer3FlowInfo_try_from"
                     /\ UNCHANGED result
    /\ UNCHANGED <<input, gen, entry, rem, pcapVars, ethVars, ip6Vars, ether,
                   l4_res, layer3>>

\* ipv6.rs:126-161 (and its counterpart for IPv4)
Layer3TryFrom ==
    /\ pc = "Layer3FlowInfo_try_from"
    /\ \E r \in L4ParseResults(ip, callee) :
          /\ l4_res' = r
          /\ layer3' = Layer3FlowInfo_try_from(ip, r)
    /\ IF entry = "Layer3FlowInfo_try_from"
       THEN result' = layer3' /\ pc' = "done"
       ELSE pc' = "Layer2FlowInfo_return" /\ UNCHANGED result
    /\ UNCHANGED <<input, gen, entry, rem, pcapVars, ethVars, ip6Vars, ether, ip,
                   l3_res>>

\* ethernet.rs:243-250
Layer2Return ==
    /\ pc = "Layer2FlowInfo_return"
    /\ result' = Layer2FlowInfo_try_from_return(ether, layer3, host_endian)
    /\ pc' = "done"
    /\ UNCHANGED <<input, gen, entry, rem, pcapVars, ethVars, ip6Vars, flowVars>>

NextFlow == Layer2TryFrom \/ Layer3TryFrom \/ Layer2Return

SpecFlow == InitFlow /\ [][NextFlow]_vars

(***************************************************************************)
(* The two decoders run on proper prefixes of the buffers they decode.     *)
(***************************************************************************)
InitPrefix ==
    \/ InitEthernet /\ gen \in GenCutFrames
    \/ InitIPv6 /\ gen \in GenCutPackets

NextPrefix == NextEthernet \/ NextIPv6

SpecPrefix == InitPrefix /\ [][NextPrefix]_vars

(***************************************************************************)
(* The decoders and the conversions together.                              *)
(***************************************************************************)
Init == InitFile \/ InitEthernet \/ InitIPv6 \/ InitFlow

Next == NextFile \/ NextEthernet \/ NextIPv6 \/ NextFlow

Spec == Init /\ [][Next]_vars

(***************************************************************************)
(* Properties of the file layer.                                           *)
(***************************************************************************)
\* the records of a successful result of either entry point
RecordsOf(r) == IF entry = "parse_file" THEN r.val.records ELSE r.val

HeaderBytesOf(e) == IF e = "parse_file" THEN GLOBAL_HEADER_LENGTH ELSE 0

RECURSIVE Consumed(_)
Consumed(recs) ==
    IF recs = <<>> THEN 0
    ELSE RECORD_HEADER_LENGTH + Len(Head(recs).payload) + Consumed(Tail(recs))

IsPrefix(s, t) == Len(s) <= Len(t) /\ s = Take(t, Len(s))

\* the buffer starts with a complete header of a known magic (parse_file), or
\* is a bare record stream (parse_records)
GenWellFormedStart ==
    /\ gen.cut = HeaderBytesOf(gen.entry)
    /\ gen.magic # "Bad"

\* C1: a valid global header followed by k complete records parses to exactly
\* those k records, in input order, with an empty rest when nothing follows
\* them; bytes after the last complete record that form no full record never
\* add a record (the count is that of the records decoded).
C1_RecordsDecodedInOrder ==
    (pc = "done" /\ GenWellFormedStart) =>
        /\ IsOk(result)
        /\ RecordsOf(result) = GenRecordValues(gen.lens)
        /\ Len(RecordsOf(result)) = Len(gen.lens)
        /\ result.rest = GenTailBytes(GenEndianness(gen.magic), gen.tail)
        /\ (gen.tail = NoTail => result.rest = <<>>)
        /\ (entry = "parse_file" => result.val.header = GenHeaderValue(gen.magic))

C1_Witness ==
    /\ pc = "done"
    /\ entry = "parse_file"
    /\ gen.magic = "Little"
    /\ gen.lens = <<3, 0, 1>>
    /\ gen.tail = NoTail
    /\ IsOk(result)
    /\ result.rest = <<>>
    /\ Len(result.val.records) = 3
    /\ result.val.records[1].payload = <<17, 18, 19>>

\* C2: when PcapRecord::parse answers Incomplete (of known or unknown size) on
\* the current tail, parse_records ends with success: the records decoded so
\* far, and as rest exactly the bytes no record was decoded from.
C2_IncompleteEndsStream ==
    (pc = "done" /\ IsIncomplete(res)) =>
        /\ IsOk(result)
        /\ RecordsOf(result) = records
        /\ IsPrefix(RecordsOf(result), GenRecordValues(gen.lens))
        /\ result.rest = Drop(input, HeaderBytesOf(entry) + Consumed(RecordsOf(result)))

C2_Witness ==
    /\ pc = "done"
    /\ res = Incomplete(Size(60))
    /\ Len(records) = 2
    /\ IsOk(result)
    /\ Len(result.rest) = 56

\* C3: a result of PcapRecord::parse that is an error other than Incomplete
\* ends parse_records at once with that same error, whatever was decoded
\* before it: no record list is returned.
C3_ErrorAbortsLoop ==
    (res.tag \in {"Error", "Failure"}) => (pc = "done" /\ result = res)

C3_Witness ==
    /\ pc = "done"
    /\ res.tag = "Error"
    /\ Len(records) = 2
    /\ Len(current) > RECORD_HEADER_LENGTH
    /\ result = res

\* C4: parse_file returns a failure of GlobalHeader::parse unchanged and
\* decodes no record; after a header it returns what parse_records returns on
\* the bytes that follow the header, under the header's endianness.
C4_HeaderGatesRecords ==
    (pc = "done" /\ entry = "parse_file") =>
        LET h == GlobalHeader_parse(input)
        IN IF IsOk(h)
           THEN LET rr == parse_records(Drop(input, GLOBAL_HEADER_LENGTH),
                                        h.val.endianness)
                IN /\ IsOk(result)
                   /\ result.val.header = h.val
                   /\ result.val.records = rr.val
                   /\ result.rest = rr.rest
           ELSE /\ result = h
                /\ res = NoResult
                /\ records = <<>>
                /\ current = <<>>

C4_Witness ==
    /\ pc = "done"
    /\ entry = "parse_file"
    /\ gen.magic = "Little"
    /\ IsOk(result)
    /\ result.val.header.endianness = "Little"
    /\ Len(result.val.records) = 2
    /\ result.val.records[2].ts_seconds = 1527868901
    /\ result.rest # <<>>

(***************************************************************************)
(* Properties of Ethernet::parse.                                          *)
(***************************************************************************)
EthernetDone == entry = "Ethernet_parse" /\ pc \in {"done", "vlan"}

\* the 16-bit big-endian word of the buffer at byte offset `off`
WordAt(i, off) == i[off + 1] * 256 + i[off + 2]

TagTypeOf(tpid) == IF tpid = 33024 THEN "VlanTagId" ELSE "ProviderBridging"

\* the ether types that end the VLAN walk with a frame
TerminalTypes == {2048, 34525, 2054, 35020} \cup 0..ETHERNET_PAYLOAD

TerminalTypeOf(w) ==
    CASE w = 2048 -> L3("IPv4")
      [] w = 34525 -> L3("IPv6")
      [] w = 2054 -> L3("Arp")
      [] w = 35020 -> L3("Lldp")
      [] OTHER -> PayloadLength(w)

\* C5: a frame with N stacked 802.1Q tags (identifier 0x8100 or 0x88a8, then
\* the 2-byte TCI) followed by a terminal EtherType decodes to exactly N tags
\* in wire order, each of the type of its identifier, and to that EtherType.
C5_StackedTagsDecoded ==
    (EthernetDone /\ gen.family = "dot1q" /\ gen.cut = 0
        /\ gen.ether_type \in TerminalTypes) =>
        /\ IsOk(result)
        /\ Len(result.val.vlans) = Len(gen.tags)
        /\ \A k \in 1..Len(gen.tags) :
              result.val.vlans[k].vlan_type = TagTypeOf(gen.tags[k].tpid)
        /\ result.val.ether_type = TerminalTypeOf(gen.ether_type)

\* C6: vlan() is 0 for a frame without tags and otherwise the 12-bit VID of
\* the first tag, the low 12 bits of the big-endian TCI (bytes 0 and 1 of the
\* tag), whatever the other TCI bits and the host byte order.
C6_VlanIsOutermostVid ==
    (entry = "Ethernet_parse" /\ pc = "vlan") =>
        /\ vlan < 4096
        /\ vlan = IF result.val.vlans = <<>> THEN 0
                  ELSE (result.val.vlans[1].value[1] * 256
                        + result.val.vlans[1].value[2]) % 4096

\* C7: a successful Ethernet::parse leaves no rest and returns as payload all
\* the bytes of the buffer behind the terminal EtherType field, also under a
\* PayloadLength that differs from their number.
C7_PayloadIsAllThatFollows ==
    (EthernetDone /\ IsOk(result)) =>
        /\ result.rest = <<>>
        /\ result.val.payload =
              Drop(input, 2 * MAC_LENGTH
                          + (2 + VLAN_LENGTH) * Len(result.val.vlans) + 2)
        /\ (gen.family = "raw" /\ gen.cut = 0 => result.val.payload = gen.payload)

C7_Witness ==
    /\ EthernetDone
    /\ IsOk(result)
    /\ result.val.ether_type = PayloadLength(1500)
    /\ Len(result.val.vlans) = 2
    /\ result.val.payload = <<1, 2, 3, 4>>
    /\ result.rest = <<>>

\* an ether type that is no VLAN identifier, no known L3 type and above 1500
UnknownType(w) == w \notin TerminalTypes /\ w \notin TagIds

\* C8 as stated: an unknown type value ends the walk with a frame whose
\* ether type is Unknown(value) and whose payload is the remaining bytes.
C8_UnknownTypeDecoded ==
    (EthernetDone /\ gen.family = "raw" /\ gen.cut = 0
        /\ UnknownType(gen.ether_type)) =>
        /\ IsOk(result)
        /\ result.val.ether_type = [kind |-> "Unknown", n |-> gen.ether_type]
        /\ result.val.payload = gen.payload

\* C8 as amended: an unknown type value makes Ethernet::parse fail with
\* nom's Error(MapOpt) raised on the slice that starts at that value; no
\* frame and no payload is returned.
C8_UnknownTypeRejected ==
    (EthernetDone /\ gen.family = "raw" /\ gen.cut = 0
        /\ UnknownType(gen.ether_type)) =>
        result = Error(Drop(input, 2 * MAC_LENGTH
                                   + (2 + VLAN_LENGTH) * Len(gen.tags)), "MapOpt")

C8_Witness ==
    /\ EthernetDone
    /\ gen.family = "raw"
    /\ gen.cut = 0
    /\ gen.ether_type = 34887
    /\ Len(gen.tags) = 1
    /\ gen.payload = <<1, 2, 3, 4>>
    /\ result.tag = "Error"
    /\ Len(result.at) = 6

\* C9: 0x0800, 0x86dd, 0x0806 and 0x88cc are classified L3 IPv4, IPv6, Arp and
\* Lldp, every value up to 1500 PayloadLength of that value; each ends the walk
\* (no tag is read behind it), and no value is both an L3 type and a length.
C9_TerminalClassification ==
    /\ (EthernetDone /\ gen.family = "raw" /\ gen.cut = 0
          /\ gen.ether_type \in TerminalTypes) =>
          /\ IsOk(result)
          /\ result.val.ether_type = TerminalTypeOf(gen.ether_type)
          /\ Len(result.val.vlans) = Len(gen.tags)
    /\ (EthernetDone /\ IsOk(result)) =>
          LET w == WordAt(input, 2 * MAC_LENGTH
                                 + (2 + VLAN_LENGTH) * Len(result.val.vlans))
          IN /\ result.val.ether_type.kind \in {"L3", "PayloadLength"}
             /\ result.val.ether_type = TerminalTypeOf(w)
             /\ (result.val.ether_type.kind = "L3") = (w > ETHERNET_PAYLOAD)

C9_Witness ==
    /\ EthernetDone
    /\ gen.family = "raw"
    /\ gen.ether_type = 1500
    /\ Len(gen.tags) = 1
    /\ IsOk(result)
    /\ result.val.ether_type = PayloadLength(1500)
    /\ Len(result.val.vlans) = 1

(***************************************************************************)
(* Properties of IPv6::parse.                                              *)
(***************************************************************************)
IPv6Done == entry = "IPv6_parse" /\ pc = "done"

\* C10: a whole version 6 packet whose chain of extension headers ends in
\* TCP or UDP decodes to that protocol, to the addresses at bytes 8..24 and
\* 24..40, and to a payload of payload_length minus the bytes of the
\* extension headers: the L4 segment alone.
C10_ExtensionChainDecoded ==
    (IPv6Done /\ gen.cut = 0 /\ gen.version \div 16 = 6
              /\ gen.l4 \in {TCP, UDP}) =>
        /\ IsOk(result)
        /\ result.val.protocol = gen.l4
        /\ result.val.src_ip = SubSeq(input, 9, 24)
        /\ result.val.dst_ip = SubSeq(input, 25, 40)
        /\ Len(result.val.payload)
              = WordAt(input, 4) - EXTENSION_HEADER_LENGTH * Len(gen.chain)
        /\ result.val.payload = gen.segment

\* C11: a version 6 packet whose next-header field is TCP or UDP decodes to
\* src = bytes 8..24, dst = bytes 24..40, that protocol and a payload of
\* exactly payload_length bytes from byte 40, the bytes behind them being
\* the rest; with fewer than 40 + payload_length bytes it is Incomplete.
C11_DeclaredLengthBoundsPayload ==
    (IPv6Done /\ gen.version \div 16 = 6 /\ gen.chain = <<>>
              /\ gen.l4 \in {TCP, UDP}) =>
        LET plen == Len(gen.segment)
        IN IF Len(input) >= 40 + plen
           THEN /\ IsOk(result)
                /\ WordAt(input, 4) = plen
                /\ result.val.src_ip = SubSeq(input, 9, 24)
                /\ result.val.dst_ip = SubSeq(input, 25, 40)
                /\ result.val.protocol = input[7]
                /\ result.val.payload = SubSeq(input, 41, 40 + plen)
                /\ result.rest = SubSeq(input, 41 + plen, Len(input))
           ELSE IsIncomplete(result)

\* an 8-byte segment followed by a byte that is not the packet's
C11_Witness ==
    /\ IPv6Done
    /\ gen.version \div 16 = 6 /\ gen.chain = <<>> /\ gen.l4 = TCP
    /\ gen.cut = 0
    /\ IsOk(result)
    /\ Len(result.val.payload) = 8
    /\ Len(result.rest) = 1

(***************************************************************************)
(* Properties of the conversions to flow information.                      *)
(***************************************************************************)
Layer2Done == entry = "Layer2FlowInfo_try_from" /\ pc = "done"

\* Layer3FlowInfo::try_from has returned for a value IPv6::parse decoded
Layer3Returned ==
    /\ layer3 # NoResult
    /\ \/ entry = "Layer3FlowInfo_try_from"
       \/ entry = "Layer2FlowInfo_try_from" /\ Layer2FlowInfo_decoder(ether) = "IPv6"

\* segments the L4 decoders decode whole
WholeSegments == {"tcp", "tcp_data", "udp", "udp_data"}

\* C12: when the L3 decoder succeeds and leaves n > 0 bytes of the Ethernet
\* payload, Layer2FlowInfo::try_from fails with IncompleteParse(n); a
\* well-formed IPv6 frame with one trailing byte fails with
\* IncompleteParse(1); and when the L4 decoder leaves n > 0 bytes of the
\* IPv6 payload, Layer3FlowInfo::try_from fails with IncompleteParse(n).
C12_LeftoverBytesRejected ==
    /\ (Layer2Done /\ Layer2FlowInfo_decoder(ether) # "none"
                   /\ IsOk(l3_res) /\ Len(l3_res.rest) > 0) =>
          /\ result.tag = "Err"
          /\ result.err.kind = [name |-> "IncompleteParse", amt |-> Len(l3_res.rest)]
          /\ layer3 = NoResult
    /\ (Layer2Done /\ callee = "spec" /\ gen.ether_type = 34525
                   /\ gen.family = "IPv6" /\ gen.shape = "extra"
                   /\ gen.segment \in WholeSegments) =>
          /\ result.tag = "Err"
          /\ result.err.kind = [name |-> "IncompleteParse", amt |-> 1]
    /\ (Layer3Returned /\ Layer3FlowInfo_decoder(ip) # "none"
                       /\ IsOk(l4_res) /\ Len(l4_res.rest) > 0) =>
          /\ layer3.tag = "Err"
          /\ layer3.err.kind = [name |-> "IncompleteParse", amt |-> Len(l4_res.rest)]
          /\ pc = "done" => result = layer3

\* the frame of scenario S3 with one byte behind the IPv6 packet
C12_Witness ==
    /\ Layer2Done
    /\ callee = "spec"
    /\ gen.ether_type = 34525 /\ gen.family = "IPv6" /\ gen.shape = "extra"
    /\ gen.segment = "tcp"
    /\ IsOk(l3_res) /\ Len(l3_res.rest) = 1
    /\ result.tag = "Err" /\ result.err.kind.name = "IncompleteParse"

\* C13: Layer2FlowInfo::try_from succeeds only for the ether types L3(IPv4)
\* and L3(IPv6); for L3(Arp), L3(Lldp) and PayloadLength(n) it fails with
\* the error EthernetType carrying that ether type, and no L3 decoder and no
\* inner conversion is run.
C13_OtherEtherTypesUnsupported ==
    Layer2Done =>
        IF ether.ether_type \in {[kind |-> "L3", id |-> "IPv4"],
                                 [kind |-> "L3", id |-> "IPv6"]}
        THEN l3_res # NoResult
        ELSE /\ result = [tag |-> "Err",
                          err |-> [kind |-> [name |-> "EthernetType",
                                             value |-> ether.ether_type],
                                   cause |-> None]]
             /\ l3_res = NoResult
             /\ l4_res = NoResult
             /\ layer3 = NoResult

\* an ARP frame, and a frame whose type field is a length
C13_Witness ==
    /\ Layer2Done
    /\ ether.ether_type \in {L3("Arp"), PayloadLength(4)}
    /\ Len(ether.payload) > 0
    /\ result.tag = "Err"
    /\ result.err.kind.name = "EthernetType"

(***************************************************************************)
(* Properties of the decoders on truncated buffers.                        *)
(***************************************************************************)
\* the buffer the input is a prefix of, and what the decoder returns for it
WholeBytes ==
    IF entry = "Ethernet_parse"
    THEN GenFrameBytes([gen EXCEPT !.cut = 0])
    ELSE GenPacketBytes([gen EXCEPT !.cut = 0])

WholeResult ==
    IF entry = "Ethernet_parse"
    THEN Ethernet_parse_result(WholeBytes)
    ELSE IPv6_parse_result(WholeBytes)

\* a decoder has returned for a proper prefix of a buffer it decodes
PrefixDone ==
    /\ entry \in {"Ethernet_parse", "IPv6_parse"}
    /\ pc \in {"done", "vlan"}
    /\ gen.cut > 0
    /\ IsOk(WholeResult)

\* C14 as stated: every proper prefix of a buffer that Ethernet::parse or
\* IPv6::parse decodes yields Incomplete.
C14_EveryPrefixIncomplete == PrefixDone => IsIncomplete(result)

\* C14: a proper prefix of a buffer that Ethernet::parse or IPv6::parse
\* decodes never yields an error other than Incomplete; it yields Incomplete
\* exactly when it is shorter than what the decoder read of the buffer (for
\* Ethernet the MACs, tags and type; for IPv6 all but the returned rest), and
\* otherwise it decodes: Ethernet to the same frame with the payload cut
\* short, IPv6 to the same packet with a shorter rest.
C14_PrefixIncompleteOrShorter ==
    PrefixDone =>
        IF entry = "Ethernet_parse"
        THEN LET read == Len(WholeBytes) - Len(WholeResult.val.payload)
             IN IF Len(input) < read
                THEN IsIncomplete(result)
                ELSE /\ IsOk(result)
                     /\ result.rest = <<>>
                     /\ result.val =
                           [WholeResult.val EXCEPT
                              !.payload = Take(@, Len(input) - read)]
        ELSE LET read == Len(WholeBytes) - Len(WholeResult.rest)
             IN IF Len(input) < read
                THEN IsIncomplete(result)
                ELSE /\ IsOk(result)
                     /\ result.val = WholeResult.val
                     /\ result.rest = Drop(input, read)

\* a frame cut inside its payload, and a frame cut inside its type
C14_Witness ==
    /\ PrefixDone
    /\ entry = "Ethernet_parse"
    /\ \/ IsOk(result) /\ Len(result.val.payload) = 2
       \/ IsIncomplete(result) /\ Len(input) = 2 * MAC_LENGTH + 1

(***************************************************************************)
(* Termination.                                                            *)
(***************************************************************************)
\* C15: IPv6::parse returns for every input; every call of
\* parse_next_header that calls itself again hands on a strictly shorter
\* slice; the call returns a packet only with a non-extension protocol, and
\* otherwise Incomplete or a parse error.
C15_WalkTerminates ==
    /\ <>(pc = "done")
    /\ [][(pc = "parse_next_header" /\ pc' = "parse_next_header") =>
            (has_next_option(next_header) /\ Len(rem') < Len(rem))]_vars
    /\ [](IPv6Done =>
            \/ IsOk(result) /\ ~has_next_option(result.val.protocol)
                            /\ result.val.protocol = next_header
            \/ IsIncomplete(result)
            \/ result.tag = "Error" /\ result.code \in {"MapOpt", "CondReduce"})

\* a walk of one step (the hop limit read as TCP) that ends in a packet
C15_Witness ==
    /\ IPv6Done
    /\ gen.chain # <<>>
    /\ gen.hop = TCP
    /\ IsOk(result)
    /\ result.val.protocol = TCP
    /\ Len(rem) < Len(input) - 7

IsSuffix(s, t) == Len(s) <= Len(t) /\ s = Drop(t, Len(t) - Len(s))

\* C16: parse_records returns for every input; an iteration that is followed
\* by another one decoded a record and shortened the remaining input by the
\* 16 header bytes plus incl_len; the remaining input and the returned rest
\* are suffixes of the input; and on an empty remaining input the iteration
\* gets Incomplete and ends the loop.
C16_RecordLoopTerminates ==
    /\ <>(pc = "done")
    /\ [][(pc = "loop" /\ pc' = "loop") =>
            /\ IsOk(res')
            /\ current' = res'.rest
            /\ Len(current') = Len(current)
                                 - (RECORD_HEADER_LENGTH + res'.val.incl_len)
            /\ Len(current') < Len(current)]_vars
    /\ [][(pc = "loop" /\ current = <<>>) =>
            (pc' = "done" /\ IsIncomplete(res') /\ IsOk(result'))]_vars
    /\ [](pc = "loop" => IsSuffix(current, input))
    /\ []((pc = "done" /\ IsOk(result)) => IsSuffix(result.rest, input))

\* an input that ends exactly behind its last record
C16_Witness ==
    /\ entry = "parse_records"
    /\ pc = "done"
    /\ Len(input) > 0
    /\ IsOk(result)
    /\ result.rest = <<>>
    /\ Len(result.val) >= 2
    /\ IsIncomplete(res)

(***************************************************************************)
(* Errors of the conversions.                                              *)
(***************************************************************************)
DigitChars == <<"0", "1", "2", "3", "4", "5", "6", "7", "8", "9">>

IsDecimal(str) ==
    /\ Len(str) > 0
    /\ \A k \in 1..Len(str) : \E d \in 1..10 : DigitChars[d] = str[k]
    /\ Len(str) > 1 => str[1] # "0"

\* the number a string of decimal digits denotes
RECURSIVE DecimalValue(_)
DecimalValue(str) ==
    IF str = <<>> THEN 0
    ELSE 10 * DecimalValue(SubSeq(str, 1, Len(str) - 1))
         + (CHOOSE d \in 0..9 : DigitChars[d + 1] = str[Len(str)])

\* e is the error of a conversion whose decoder returned the nom error r
FlowParseOf(r, e) ==
    /\ e.kind = [name |-> "FlowParse"]
    /\ e.cause.cause = None
    /\ CASE r.tag = "Incomplete" /\ r.needed.kind = "Size" ->
               /\ e.cause.kind.name = "NomIncomplete"
               /\ IsDecimal(e.cause.kind.needed)
               /\ DecimalValue(e.cause.kind.needed) = r.needed.n
         [] r.tag = "Incomplete" /\ r.needed.kind = "Unknown" ->
               e.cause.kind = [name |-> "NomIncomplete",
                               needed |-> <<"U", "n", "k", "n", "o", "w", "n">>]
         [] r.tag \in {"Error", "Failure"} ->
               e.cause.kind.name = "NomError"
         [] OTHER -> FALSE

\* C17: when the L3 decoder fails, Layer2FlowInfo::try_from fails with an
\* error of kind FlowParse whose cause is the decoder's error translated
\* (Incomplete of size n: NomIncomplete of n in decimal; Incomplete of
\* unknown size: NomIncomplete("Unknown"); Error and Failure: NomError), and
\* no inner conversion is run; likewise Layer3FlowInfo::try_from when the L4
\* decoder fails.
C17_DecoderErrorIsFlowParse ==
    /\ (Layer2Done /\ l3_res # NoResult /\ ~IsOk(l3_res)) =>
          /\ result.tag = "Err"
          /\ FlowParseOf(l3_res, result.err)
          /\ layer3 = NoResult
    /\ (Layer3Returned /\ l4_res # NoResult /\ ~IsOk(l4_res)) =>
          /\ layer3.tag = "Err"
          /\ FlowParseOf(l4_res, layer3.err)
          /\ pc = "done" => result = layer3

\* an IPv6 frame that lacks its last byte: IPv6::parse asks for the 20 bytes
\* of the payload
C17_Witness ==
    /\ Layer2Done
    /\ callee = "spec"
    /\ gen.ether_type = 34525 /\ gen.family = "IPv6" /\ gen.shape = "short"
    /\ gen.segment = "tcp"
    /\ l3_res = Incomplete(Size(20))
    /\ result.tag = "Err"
    /\ result.err.kind.name = "FlowParse"
    /\ result.err.cause.kind = [name |-> "NomIncomplete", needed |-> <<"2", "0">>]

=============================================================================
